---- MODULE Spec2Model ----
(***************************************************************************)
(* A model of combine_data.py: the continent-level JSON fragments of a     *)
(* data directory are discovered (load_continents), merged                 *)
(* (combine_continents) and written out as global files.  The helpers      *)
(* create_basin_data, sort_cycle_pass / write_json and                     *)
(* parse_duplicate_files are modelled as operators and exercised by        *)
(* specifications of their own.                                            *)
(*                                                                         *)
(* Python strings are TLA+ strings; TLC evaluates Len, SubSeq, Head, Tail  *)
(* and \o on them.                                                         *)
(***************************************************************************)
EXTENDS Integers, Sequences, FiniteSets, TLC

(***************************************************************************)
(* Bounds of the model.                                                    *)
(***************************************************************************)
MaxFiles == 4
MaxFragLen == 2
MaxRuns == 2
MaxListing == 3
MaxKeys == 3
MaxReaches == 3

(***************************************************************************)
(* Python string primitives.                                               *)
(***************************************************************************)
\* str.startswith
startswith(s, p) == Len(p) <= Len(s) /\ SubSeq(s, 1, Len(p)) = p

\* s[n:] for n >= 0
DropFirst(s, n) == SubSeq(s, n + 1, Len(s))

\* s[:-n] : everything but the last n characters ("" when s is shorter)
DropLast(s, n) == IF Len(s) <= n THEN "" ELSE SubSeq(s, 1, Len(s) - n)

\* s[-n:] : the last n characters (all of s when s is shorter)
TakeLast(s, n) == IF Len(s) <= n THEN s ELSE SubSeq(s, Len(s) - n + 1, Len(s))

\* str.replace(old, new): every non-overlapping occurrence, left to right
RECURSIVE replace(_, _, _)
replace(s, old, new) ==
    IF Len(s) < Len(old) \/ Len(old) = 0 THEN s
    ELSE IF startswith(s, old)
         THEN new \o replace(DropFirst(s, Len(old)), old, new)
         ELSE Head(s) \o replace(Tail(s), old, new)

\* s.split('_')[-1] : what follows the last separator (s itself if none)
RECURSIVE SplitLast(_, _)
SplitLast(s, sep) ==
    IF \E i \in 1..Len(s) : SubSeq(s, i, i) = sep
    THEN SplitLast(DropFirst(s, CHOOSE i \in 1..Len(s) : SubSeq(s, i, i) = sep), sep)
    ELSE s

\* fnmatch / glob on one path component; "*" is the only metacharacter
\* that occurs in the patterns and names of this program
RECURSIVE fnmatch(_, _)
fnmatch(name, pat) ==
    IF Len(pat) = 0 THEN Len(name) = 0
    ELSE IF Head(pat) = "*"
         THEN \E k \in 0..Len(name) : fnmatch(DropFirst(name, k), Tail(pat))
         ELSE /\ Len(name) > 0
              /\ Head(name) = Head(pat)
              /\ fnmatch(Tail(name), Tail(pat))

\* the decimal digits, in order
Digits == "0123456789"

isdigitchar(c) == \E i \in 1..10 : SubSeq(Digits, i, i) = c

DigitVal(c) == (CHOOSE i \in 1..10 : SubSeq(Digits, i, i) = c) - 1

\* str.isdigit() : non-empty and all characters are digits
isdigit(text) ==
    Len(text) > 0 /\ \A i \in 1..Len(text) : isdigitchar(SubSeq(text, i, i))

\* int(text) for a string of decimal digits; -1 stands for ValueError
RECURSIVE int(_)
int(text) ==
    IF ~isdigit(text) THEN -1
    ELSE IF Len(text) = 1 THEN DigitVal(text)
    ELSE 10 * int(DropLast(text, 1)) + DigitVal(TakeLast(text, 1))

\* str(n) for n >= 0
RECURSIVE str(_)
str(n) ==
    IF n < 10 THEN SubSeq(Digits, n + 1, n + 1)
    ELSE str(n \div 10) \o SubSeq(Digits, (n % 10) + 1, (n % 10) + 1)

\* the elements of a sequence
Range(q) == {q[i] : i \in 1..Len(q)}

\* all orders in which the elements of a finite set can be enumerated
Orders(S) ==
    {q \in [1..Cardinality(S) -> S] : \A i, j \in 1..Cardinality(S) : i # j => q[i] # q[j]}

(***************************************************************************)
(* State.  dir is the data directory: file name -> parsed JSON content.    *)
(* A content is [kind, data, vals]: a JSON array ("list", its items in     *)
(* data), a JSON object ("dict", keys in data and their values in vals, in *)
(* file order) or text json.load rejects ("bad").                          *)
(***************************************************************************)
VARIABLES
    dir,                \* the files under args.datadir
    expanded,           \* args.expanded
    pc,                 \* where the run of combine_data stands
    error,              \* the exception that ended the run ("" if none)
    continents,         \* what load_continents returned
    ci,                 \* index of combine_continents' outer loop
    all_continent_files,\* files of the inner loop still to be read
    out_dict,           \* combine_continents' accumulator: key -> list
    out_keys,           \* insertion order of out_dict's keys
    reaches_json_list,  \* the paths combine_continents returns
    run,                \* 1 for the first run over dir, 2 for a re-run
    first_run,          \* dir as the first run left it
    s3_urls,            \* parse_duplicate_files: its argument
    parsed,             \* parse_duplicate_files: its result
    parsed_again,       \* the result of resolving the result once more
    json_dict,          \* write_json: the mapping under "cycle_passes"
    sorted_dict,        \* write_json: the OrderedDict it builds
    base_reaches,       \* create_basin_data: the reach ids
    basin_data          \* create_basin_data: the records built so far

runvars == <<dir, expanded, pc, error, continents, ci, all_continent_files,
             out_dict, out_keys, reaches_json_list, run, first_run>>
dupvars == <<s3_urls, parsed, parsed_again>>
sortvars == <<json_dict, sorted_dict>>
basinvars == <<base_reaches, basin_data>>
vars == <<runvars, dupvars, sortvars, basinvars>>

\* args.contfile (its default)
contfile == "continent.json"

\* load_continents' table of continents and their region identifiers
continent_dict ==
    [af |-> <<1>>, as |-> <<4, 3>>, eu |-> <<2>>, na |-> <<7, 8, 9>>,
     oc |-> <<5>>, sa |-> <<6>>]

List(items) == [kind |-> "list", data |-> items, vals |-> <<>>]
Dict(keys, values) == [kind |-> "dict", data |-> keys, vals |-> values]
Bad == [kind |-> "bad", data |-> <<>>, vals |-> <<>>]
Absent == [kind |-> "absent", data |-> <<>>, vals |-> <<>>]

\* a list fragment of m items; fragments share their leading items
Fragment(m) == List([i \in 1..m |-> "x" \o str(i)])

Lists == {Fragment(m) : m \in 0..MaxFragLen}

\* the fragment files a data directory may hold, and what each may contain
FragmentNames ==
    <<"reaches_na.json", "reaches_as.json",
      "expanded_reaches_of_interest_na.json", "reaches_of_interest.json",
      "metrosets_na.json", "metrosets_as.json", "basin_na.json",
      "cycle_passes_na.json", "cycle_passes_as.json">>

ContentsOf(f) ==
    CASE f \in {"reaches_na.json", "reaches_as.json", "metrosets_as.json"} -> Lists
      [] f = "metrosets_na.json" -> Lists \cup {Bad}
      [] f = "cycle_passes_na.json" ->
            {Dict(<<"1_10", "1_2">>, <<"na10", "na2">>)}
      [] f = "cycle_passes_as.json" -> {Dict(<<"2_7">>, <<"as7">>)}
      [] OTHER -> {Fragment(1)}

Options(i) == ContentsOf(FragmentNames[i]) \cup {Absent}

\* the directory holding the files chosen in o (one option per name)
Directory(o) ==
    LET present == {i \in 1..Len(FragmentNames) : o[i].kind # "absent"}
        at(f) == CHOOSE i \in present : FragmentNames[i] = f
    IN  [f \in {FragmentNames[i] : i \in present} |-> o[at(f)]]

NoRun(at) ==
    /\ dir = <<>> /\ expanded = FALSE /\ pc = at /\ error = ""
    /\ continents = <<>> /\ ci = 0 /\ all_continent_files = {}
    /\ out_dict = <<>> /\ out_keys = <<>> /\ reaches_json_list = <<>>
    /\ run = 0 /\ first_run = <<>>
NoDup == s3_urls = <<>> /\ parsed = <<>> /\ parsed_again = <<>>
NoSort == json_dict = <<>> /\ sorted_dict = <<>>
NoBasin == base_reaches = <<>> /\ basin_data = <<>>

Init ==
    /\ expanded \in BOOLEAN
    /\ \E o1 \in Options(1), o2 \in Options(2), o3 \in Options(3),
          o4 \in Options(4), o5 \in Options(5), o6 \in Options(6),
          o7 \in Options(7), o8 \in Options(8), o9 \in Options(9) :
          LET o == <<o1, o2, o3, o4, o5, o6, o7, o8, o9>>
          IN  /\ Cardinality({i \in 1..9 : o[i].kind # "absent"}) <= MaxFiles
              /\ dir = Directory(o)
    /\ pc = "load_continents" /\ error = ""
    /\ continents = <<>> /\ ci = 0 /\ all_continent_files = {}
    /\ out_dict = <<>> /\ out_keys = <<>> /\ reaches_json_list = <<>>
    /\ run = 1 /\ first_run = <<>>
    /\ NoDup /\ NoSort /\ NoBasin

\* an uncaught exception ends the process: nothing after it runs
Raise(e) ==
    /\ pc' = "error" /\ error' = e
    /\ UNCHANGED <<dir, expanded, continents, ci, all_continent_files,
                   out_dict, out_keys, reaches_json_list, run, first_run>>

\* the region token of a file name: basename.split('_')[-1].replace('.json','')
RegionToken(f) == replace(SplitLast(f, "_"), ".json", "")

\* one entry of the manifest: {code: regions}, regions as json.dump prints them
RECURSIVE JoinInts(_)
JoinInts(q) ==
    IF Len(q) = 0 THEN ""
    ELSE IF Len(q) = 1 THEN str(q[1])
    ELSE str(q[1]) \o ", " \o JoinInts(Tail(q))

Manifest(codes) ==
    Dict(codes, [i \in 1..Len(codes) |-> "[" \o JoinInts(continent_dict[codes[i]]) \o "]"])

load_continents ==
    /\ pc = "load_continents"
    /\ LET cont_file == IF expanded THEN "expanded_" \o contfile ELSE contfile
           matched == {f \in DOMAIN dir : fnmatch(f, "*reaches*.json")}
           kept == {f \in matched : RegionToken(f) # "interest"}
       IN  IF DOMAIN dir = {} THEN Raise("ValueError")
           ELSE IF \E f \in kept : RegionToken(f) \notin DOMAIN continent_dict
                THEN Raise("KeyError")
                ELSE \E q \in Orders(kept) :
                        LET all_conts == [i \in 1..Len(q) |-> RegionToken(q[i])]
                        IN  /\ dir' = (cont_file :> Manifest(all_conts)) @@ dir
                            /\ continents' = all_conts
                            /\ ci' = 1
                            /\ pc' = "for_continent"
                            /\ UNCHANGED <<expanded, error, all_continent_files,
                                           out_dict, out_keys, reaches_json_list,
                                           run, first_run>>
    /\ UNCHANGED <<dupvars, sortvars, basinvars>>

\* combine_continents, head of the loop over continents: glob the files
for_continent ==
    /\ pc = "for_continent"
    /\ IF ci > Len(continents)
       THEN /\ pc' = "write"
            /\ UNCHANGED all_continent_files
       ELSE LET prefix == IF expanded THEN "expanded_reaches_of_interest" ELSE ""
                pattern == prefix \o "*" \o continents[ci] \o "*"
            IN  /\ all_continent_files' = {f \in DOMAIN dir : fnmatch(f, pattern)}
                /\ pc' = "for_file"
    /\ UNCHANGED <<dir, expanded, error, continents, ci, out_dict, out_keys,
                   reaches_json_list, run, first_run>>
    /\ UNCHANGED <<dupvars, sortvars, basinvars>>

\* list.extend(data): the items of a list, the keys of a dict
Iterate(data) == data.data

\* combine_continents, one pass of the loop over a continent's files
for_file ==
    /\ pc = "for_file"
    /\ IF all_continent_files = {}
       THEN /\ ci' = ci + 1
            /\ pc' = "for_continent"
            /\ UNCHANGED <<dir, expanded, error, continents, all_continent_files,
                           out_dict, out_keys, reaches_json_list, run, first_run>>
       ELSE \E continent_file \in all_continent_files :
               LET data == dir[continent_file]
                   global_file_basename ==
                       replace(continent_file, "_" \o continents[ci] \o ".json", "")
                   old == IF global_file_basename \in DOMAIN out_dict
                          THEN out_dict[global_file_basename] ELSE <<>>
               IN  IF data.kind = "bad" THEN Raise("JSONDecodeError")
                   ELSE /\ out_dict' = (global_file_basename :> (old \o Iterate(data)))
                                          @@ out_dict
                        /\ out_keys' = IF global_file_basename \in DOMAIN out_dict
                                       THEN out_keys
                                       ELSE Append(out_keys, global_file_basename)
                        /\ all_continent_files' = all_continent_files \ {continent_file}
                        /\ UNCHANGED <<dir, expanded, pc, error, continents, ci,
                                       reaches_json_list, run, first_run>>
    /\ UNCHANGED <<dupvars, sortvars, basinvars>>

\* combine_continents, the loop that writes out_dict and returns the paths
write ==
    /\ pc = "write"
    /\ LET outpath(a_key) == a_key \o ".json"
           written == [p \in {outpath(k) : k \in DOMAIN out_dict} |->
                          List(out_dict[CHOOSE k \in DOMAIN out_dict : outpath(k) = p])]
       IN  /\ dir' = written @@ dir
           /\ reaches_json_list' = [i \in 1..Len(out_keys) |-> outpath(out_keys[i])]
    /\ pc' = "done"
    /\ UNCHANGED <<expanded, error, continents, ci, all_continent_files,
                   out_dict, out_keys, run, first_run>>
    /\ UNCHANGED <<dupvars, sortvars, basinvars>>

\* the program is run again over the directory the first run left
rerun ==
    /\ pc = "done" /\ run < MaxRuns
    /\ run' = run + 1
    /\ first_run' = dir
    /\ pc' = "load_continents"
    /\ continents' = <<>> /\ ci' = 0 /\ all_continent_files' = {}
    /\ out_dict' = <<>> /\ out_keys' = <<>> /\ reaches_json_list' = <<>>
    /\ UNCHANGED <<dir, expanded, error>>
    /\ UNCHANGED <<dupvars, sortvars, basinvars>>

Next == load_continents \/ for_continent \/ for_file \/ write \/ rerun

Spec == Init /\ [][Next]_vars

(***************************************************************************)
(* Vocabulary of the claims about a run.                                   *)
(***************************************************************************)
endswith(s, p) == Len(p) <= Len(s) /\ TakeLast(s, Len(p)) = p

\* the fragment file of dataset d for continent c
FragmentFile(d, c) == d \o "_" \o c \o ".json"

\* the continents discovery returned, each once
Discovered == Range(continents)

\* list-typed and mapping-typed dataset names of the module docstring
ListDatasets == {"basin", "hivdisets", "metrosets", "reach_node", "reaches", "sicsets"}
MappingDatasets == {"cycle_passes", "passes"}

\* the fragments of dataset d that exist for the continents in C
FragmentsOf(d, C) == {FragmentFile(d, c) : c \in C} \cap DOMAIN dir

RECURSIVE TotalLen(_)
TotalLen(F) ==
    IF F = {} THEN 0
    ELSE LET f == CHOOSE g \in F : TRUE
         IN  Len(dir[f].data) + TotalLen(F \ {f})

FirstRunDone == pc = "done" /\ run = 1

\* C1: after discovery and merging of a non-expanded run, a list-typed
\* dataset that has exactly two per-continent fragments, of lengths m and n,
\* both for discovered continents, is written with exactly m + n entries.
C1_ConcatenationLaw ==
    (FirstRunDone /\ ~expanded) =>
        \A d \in ListDatasets : \A ca, cb \in Discovered :
            LET fa == FragmentFile(d, ca)
                fb == FragmentFile(d, cb)
            IN  (/\ ca # cb
                 /\ FragmentsOf(d, DOMAIN continent_dict) = {fa, fb}
                 /\ dir[fa].kind = "list" /\ dir[fb].kind = "list")
                => /\ d \in DOMAIN out_dict
                   /\ (d \o ".json") \in DOMAIN dir
                   /\ Len(dir[d \o ".json"].data) = Len(dir[fa].data) + Len(dir[fb].data)

\* C6: a fragment that fails to parse is skipped: the run does not abort,
\* and every other fragment of a discovered continent is still merged and
\* written.
C6_PartialFailureTolerance ==
    (run = 1 /\ \E f \in DOMAIN dir : dir[f].kind = "bad") =>
        /\ pc # "error"
        /\ pc = "done" =>
              \A c \in Discovered : \A d \in ListDatasets :
                  (FragmentFile(d, c) \in DOMAIN dir
                     /\ dir[FragmentFile(d, c)].kind = "list"
                     /\ ~expanded)
                  => (d \o ".json") \in DOMAIN dir

\* C7: the global dataset of a mapping-typed dataset is a mapping holding
\* every key of every fragment of a discovered continent with that key's
\* value, and nothing else.
C7_MappingUnion ==
    (FirstRunDone /\ ~expanded) =>
        \A d \in MappingDatasets :
            LET F == FragmentsOf(d, Discovered)
                g == dir[d \o ".json"]
            IN  F # {} =>
                  /\ (d \o ".json") \in DOMAIN dir
                  /\ g.kind = "dict"
                  /\ Len(g.data) = Len(g.vals)
                  /\ \A f \in F : \A i \in 1..Len(dir[f].data) :
                        \E j \in 1..Len(g.data) :
                            g.data[j] = dir[f].data[i] /\ g.vals[j] = dir[f].vals[i]
                  /\ \A j \in 1..Len(g.data) :
                        \E f \in F : \E i \in 1..Len(dir[f].data) :
                            g.data[j] = dir[f].data[i] /\ g.vals[j] = dir[f].vals[i]

\* C8: a non-expanded run that merges a reaches dataset also outputs a basin
\* dataset; an expanded run outputs none.
C8_BasinDerived ==
    FirstRunDone =>
        /\ (~expanded /\ "reaches" \in DOMAIN out_dict)
              => "basin.json" \in Range(reaches_json_list)
        /\ expanded => "basin.json" \notin Range(reaches_json_list)

\* C9: a second run over the directory the first run left completes without
\* error and leaves the same manifest and the same global datasets.
C9_RerunIdempotent ==
    (run = 2 /\ pc \in {"done", "error"}) => (pc = "done" /\ dir = first_run)

\* C10: every fragment {dataset}_{continent}.json of a discovered continent
\* is loaded exactly once under the key {dataset}, and no accumulator key
\* carries a continent suffix or the .json extension.
C10_LoadedOnceUnderDataset ==
    (FirstRunDone /\ ~expanded) =>
        /\ \A k \in DOMAIN out_dict :
              /\ ~endswith(k, ".json")
              /\ \A c \in DOMAIN continent_dict : ~endswith(k, "_" \o c)
              /\ Len(out_dict[k]) = TotalLen(FragmentsOf(k, Discovered))
        /\ \A c \in Discovered : \A f \in DOMAIN dir :
              endswith(f, "_" \o c \o ".json")
                 => DropLast(f, Len("_" \o c \o ".json")) \in DOMAIN out_dict

(***************************************************************************)
(* parse_duplicate_files                                                    *)
(***************************************************************************)
\* fnmatch.filter(names, pat): the names that match, in their order
filter(names, pat) == LET Match(n) == fnmatch(n, pat) IN SelectSeq(names, Match)

Max(S) == CHOOSE n \in S : \A m \in S : m <= n

\* "{:02d}".format(n)
format02d(n) == IF n < 10 THEN "0" \o str(n) ELSE str(n)

\* what one pass of the loop appends for entry i; int() of a non-number
\* and [0] of an empty list raise
ParsedFor(urls, i) ==
    LET all_processings == filter(urls, DropLast(i, 6) \o "*")
        all_processings_nums ==
            [k \in 1..Len(all_processings) |->
                int(replace(TakeLast(all_processings[k], 6), ".zip", ""))]
        padded_max == format02d(Max(Range(all_processings_nums)))
        max_path == filter(all_processings, "*" \o padded_max \o ".zip")
    IN  IF Len(all_processings) > 1
        THEN IF -1 \in Range(all_processings_nums) THEN "!ValueError"
             ELSE IF Len(max_path) = 0 THEN "!IndexError"
             ELSE max_path[1]
        ELSE i

\* set(parsed): list(set(...)) enumerates it in an order of its own
parse_duplicate_files(urls) == {ParsedFor(urls, urls[k]) : k \in 1..Len(urls)}

\* listing entries: a name, a 2-digit reprocessing counter, the extension
ListingStems == {"a", "ab", "a09", "abcXYZ"}
Counters == {"01", "02", "03", "07", "09", "10"}
Entries == {st \o ct \o ".zip" : st \in ListingStems, ct \in Counters}

Listings == UNION {[1..n -> Entries] : n \in 0..MaxListing}

InitDup ==
    /\ s3_urls \in Listings
    /\ parsed = <<>> /\ parsed_again = <<>>
    /\ NoRun("resolve") /\ NoSort /\ NoBasin

resolve ==
    /\ pc = "resolve"
    /\ parsed' \in Orders(parse_duplicate_files(s3_urls))
    /\ pc' = "resolve_again"
    /\ UNCHANGED <<s3_urls, parsed_again, sortvars, basinvars>>
    /\ UNCHANGED <<dir, expanded, error, continents, ci, all_continent_files,
                   out_dict, out_keys, reaches_json_list, run, first_run>>

resolve_again ==
    /\ pc = "resolve_again"
    /\ parsed_again' \in Orders(parse_duplicate_files(parsed))
    /\ pc' = "resolved"
    /\ UNCHANGED <<s3_urls, parsed, sortvars, basinvars>>
    /\ UNCHANGED <<dir, expanded, error, continents, ci, all_continent_files,
                   out_dict, out_keys, reaches_json_list, run, first_run>>

NextDup == resolve \/ resolve_again

SpecDup == InitDup /\ [][NextDup]_vars

\* the grouping key and the counter of a well-formed entry
GroupKey(e) == DropLast(e, 6)
Counter(e) == int(SubSeq(e, Len(e) - 5, Len(e) - 4))
Group(e) == {x \in Range(s3_urls) : GroupKey(x) = GroupKey(e)}

\* C3: of a group of several entries only the one with the largest counter
\* is in the output, and an entry alone in its group is in the output.
C3_GroupMaximumKept ==
    pc \in {"resolve_again", "resolved"} =>
        \A e \in Range(s3_urls) :
            IF Cardinality(Group(e)) > 1
            THEN (e \in Range(parsed)) <=> (\A x \in Group(e) : Counter(x) <= Counter(e))
            ELSE e \in Range(parsed)

\* C4: resolving the resolved listing again changes nothing.
C4_ResolveIdempotent ==
    pc = "resolved" => Range(parsed_again) = Range(parsed)

(***************************************************************************)
(* sort_cycle_pass and the sort of write_json                              *)
(***************************************************************************)
\* the characters of the keys, in code point order
Ascii == "0123456789_abcdefghijklmnopqrstuvwxyz"

ord(c) == CHOOSE i \in 1..Len(Ascii) : SubSeq(Ascii, i, i) = c

\* a < b on Python strings: by code point, a proper prefix first
RECURSIVE StrLess(_, _)
StrLess(a, b) ==
    IF Len(b) = 0 THEN FALSE
    ELSE IF Len(a) = 0 THEN TRUE
    ELSE IF Head(a) # Head(b) THEN ord(Head(a)) < ord(Head(b))
    ELSE StrLess(Tail(a), Tail(b))

\* index of the first character of s that is (digit = TRUE) or is not
\* (digit = FALSE) a digit; Len(s) + 1 if there is none
FirstAt(s, digit) ==
    LET hits == {i \in 1..Len(s) : isdigitchar(SubSeq(s, i, i)) = digit}
    IN  IF hits = {} THEN Len(s) + 1 ELSE CHOOSE i \in hits : \A j \in hits : i <= j

\* re.split(r'(\d+)', s): text, digits, text, ..., text
RECURSIVE re_split(_)
re_split(s) ==
    LET k == FirstAt(s, TRUE)
        rest == DropFirst(s, k - 1)
        e == FirstAt(rest, FALSE)
    IN  IF k > Len(s) THEN <<s>>
        ELSE <<SubSeq(s, 1, k - 1), SubSeq(rest, 1, e - 1)>> \o re_split(DropFirst(rest, e - 1))

\* strtoi without the conversion: digit strings stay text
strtoi_text(text) == [isint |-> FALSE, n |-> 0, s |-> text]

\* int(text) if text.isdigit() else text
strtoi(text) ==
    IF isdigit(text) THEN [isint |-> TRUE, n |-> int(text), s |-> ""]
    ELSE [isint |-> FALSE, n |-> 0, s |-> text]

\* the sort key of one (key, value) item
sort_cycle_pass(cycle_pass) ==
    LET cps == re_split(cycle_pass[1]) IN [i \in 1..Len(cps) |-> strtoi(cps[i])]

\* x < y on two elements of a key.  Python raises TypeError on an int and a
\* str; text and numbers alternate from the same start in every key, so the
\* case has no arm here.
ElemLess(x, y) ==
    CASE x.isint /\ y.isint -> x.n < y.n
      [] ~x.isint /\ ~y.isint -> StrLess(x.s, y.s)

\* a < b on two lists: decided at the first index whose elements differ,
\* else the shorter list is the smaller
RECURSIVE ListLess(_, _)
ListLess(a, b) ==
    IF Len(b) = 0 THEN FALSE
    ELSE IF Len(a) = 0 THEN TRUE
    ELSE IF a[1] # b[1] THEN ElemLess(a[1], b[1])
    ELSE ListLess(Tail(a), Tail(b))

\* sorted(items, key=sort_cycle_pass): stable, built on < alone
RECURSIVE sorted(_)
sorted(items) ==
    IF Len(items) = 0 THEN <<>>
    ELSE LET done == sorted(SubSeq(items, 1, Len(items) - 1))
             x == items[Len(items)]
             after == {i \in 1..Len(done) :
                          ListLess(sort_cycle_pass(x), sort_cycle_pass(done[i]))}
             at == IF after = {} THEN Len(done) + 1
                   ELSE CHOOSE i \in after : \A j \in after : i <= j
         IN  SubSeq(done, 1, at - 1) \o <<x>> \o SubSeq(done, at, Len(done))

\* OrderedDict(pairs): a repeated key keeps its place and takes the last value
RECURSIVE OrderedDict(_)
OrderedDict(pairs) ==
    IF Len(pairs) = 0 THEN <<>>
    ELSE LET done == OrderedDict(SubSeq(pairs, 1, Len(pairs) - 1))
             x == pairs[Len(pairs)]
         IN  IF \E i \in 1..Len(done) : done[i][1] = x[1]
             THEN [i \in 1..Len(done) |-> IF done[i][1] = x[1] THEN x ELSE done[i]]
             ELSE Append(done, x)

\* keys of cycle/pass mappings
PassKeys ==
    {"pass1", "pass2", "pass10", "pass11", "pass01", "pass", "cycle2", "1a", "a1"}

\* the mappings of at most MaxKeys items: distinct keys, in any order
Mappings ==
    {[i \in 1..Len(q) |-> <<q[i], "v" \o str(i)>>] :
        q \in {r \in UNION {[1..n -> PassKeys] : n \in 0..MaxKeys} :
                  \A i, j \in 1..Len(r) : i # j => r[i] # r[j]}}

InitSort ==
    /\ json_dict \in Mappings
    /\ sorted_dict = <<>>
    /\ NoRun("write_json") /\ NoDup /\ NoBasin

\* write_json: json_dict["cycle_passes"] = OrderedDict(sorted(items, key))
write_json ==
    /\ pc = "write_json"
    /\ sorted_dict' = OrderedDict(sorted(json_dict))
    /\ pc' = "sorted"
    /\ UNCHANGED <<json_dict, dupvars, basinvars>>
    /\ UNCHANGED <<dir, expanded, error, continents, ci, all_continent_files,
                   out_dict, out_keys, reaches_json_list, run, first_run>>

NextSort == write_json

SpecSort == InitSort /\ [][NextSort]_vars

\* natural order, read off the characters: the leading text of both keys
\* decides by code point if it differs; else the numbers that follow decide
\* by value, a key that ends there coming first; else what follows decides
LeadingRun(s, digit) == SubSeq(s, 1, FirstAt(s, ~digit) - 1)

RECURSIVE NaturalLess(_, _)
NaturalLess(a, b) ==
    LET ta == LeadingRun(a, FALSE)
        tb == LeadingRun(b, FALSE)
        ra == DropFirst(a, Len(ta))
        rb == DropFirst(b, Len(tb))
        da == LeadingRun(ra, TRUE)
        db == LeadingRun(rb, TRUE)
    IN  IF ta # tb THEN StrLess(ta, tb)
        ELSE IF Len(da) = 0 \/ Len(db) = 0 THEN Len(da) = 0 /\ Len(db) > 0
        ELSE IF int(da) # int(db) THEN int(da) < int(db)
        ELSE NaturalLess(DropFirst(ra, Len(da)), DropFirst(rb, Len(db)))

KeysOf(pairs) == [i \in 1..Len(pairs) |-> pairs[i][1]]

Before(keys, a, b) ==
    \A i, j \in 1..Len(keys) : (keys[i] = a /\ keys[j] = b) => i < j

\* C5: the sorted mapping holds the same key-value pairs, in natural order:
\* pass2 before pass10 before pass11, and pass2, pass10, pass1 comes out as
\* pass1, pass2, pass10.
C5_NaturalOrder ==
    pc = "sorted" =>
        /\ Len(sorted_dict) = Len(json_dict)
        /\ Range(sorted_dict) = Range(json_dict)
        /\ \A i, j \in 1..Len(sorted_dict) :
              i < j => ~NaturalLess(sorted_dict[j][1], sorted_dict[i][1])
        /\ Before(KeysOf(sorted_dict), "pass2", "pass10")
        /\ Before(KeysOf(sorted_dict), "pass10", "pass11")
        /\ KeysOf(json_dict) = <<"pass2", "pass10", "pass1">>
              => KeysOf(sorted_dict) = <<"pass1", "pass2", "pass10">>

C5_Witness ==
    /\ pc = "sorted"
    /\ KeysOf(json_dict) = <<"pass2", "pass10", "pass1">>
    /\ KeysOf(sorted_dict) = <<"pass1", "pass2", "pass10">>
    /\ sorted_dict[1][2] = "v3"

(***************************************************************************)
(* create_basin_data                                                        *)
(***************************************************************************)
\* the leading decimal digit of an id -> continent code
continent_codes(digit) ==
    CASE digit = "1" -> "af" [] digit = "2" -> "eu" [] digit = "3" -> "as"
      [] digit = "4" -> "as" [] digit = "5" -> "oc" [] digit = "6" -> "sa"
      [] digit \in {"7", "8", "9"} -> "na"

\* create_basin_data with membership by containment: a reach whose id
\* holds the basin id anywhere is taken
create_basin_data_anywhere(basin_id, reaches, sword_version) ==
    [basin_id |-> basin_id,
     reach_id |-> LET In(r) == fnmatch(str(r), "*" \o str(basin_id) \o "*")
                  IN  SelectSeq(reaches, In),
     sword |-> continent_codes(SubSeq(str(basin_id), 1, 1)) \o "_sword_v" \o sword_version \o ".nc",
     sos |-> continent_codes(SubSeq(str(basin_id), 1, 1)) \o "_sword_v" \o sword_version
                \o "_SOS_priors.nc"]

create_basin_data(basin_id, reaches, sword_version) ==
    [basin_id |-> basin_id,
     reach_id |-> LET In(r) == startswith(str(r), str(basin_id))
                  IN  SelectSeq(reaches, In),
     sword |-> continent_codes(SubSeq(str(basin_id), 1, 1)) \o "_sword_v" \o sword_version \o ".nc",
     sos |-> continent_codes(SubSeq(str(basin_id), 1, 1)) \o "_sword_v" \o sword_version
                \o "_SOS_priors.nc"]

\* reach ids of several continents and lengths; 71279 and 21279 hold the
\* digits of basin 1279 without starting with them
ReachIds == {12791, 12792, 127913, 12801, 71279, 21279}

\* the basin id of a reach: int(str(x)[0:4])
BasinOf(x) == int(SubSeq(str(x), 1, 4))

InitBasin ==
    /\ base_reaches \in UNION {[1..n -> ReachIds] : n \in 0..MaxReaches}
    /\ basin_data = <<>>
    /\ NoRun("basin") /\ NoDup /\ NoSort

\* one basin record is built from the merged reaches
basin ==
    /\ pc = "basin"
    /\ \E r \in Range(base_reaches) :
          /\ \A i \in 1..Len(basin_data) : basin_data[i].basin_id # BasinOf(r)
          /\ basin_data' = Append(basin_data, create_basin_data(BasinOf(r), base_reaches, "16"))
    /\ UNCHANGED <<base_reaches, dupvars, sortvars>>
    /\ UNCHANGED <<dir, expanded, pc, error, continents, ci, all_continent_files,
                   out_dict, out_keys, reaches_json_list, run, first_run>>

NextBasin == basin

SpecBasin == InitBasin /\ [][NextBasin]_vars

\* the decimal form of r starts with that of b: dropping some number of
\* trailing digits of r leaves b
HasPrefix(r, b) == \E k \in 0..9 : r \div (10 ^ k) = b

\* C2: the reach list of every basin record is exactly the merged reach ids
\* whose decimal form starts with the basin id.
C2_BasinMembers ==
    \A i \in 1..Len(basin_data) :
        Range(basin_data[i].reach_id)
            = {r \in Range(base_reaches) : HasPrefix(r, basin_data[i].basin_id)}

C2_Witness ==
    \E i \in 1..Len(basin_data) :
        /\ basin_data[i].basin_id = 1279
        /\ {12791, 127913, 71279} \subseteq Range(base_reaches)
        /\ Range(basin_data[i].reach_id) = {12791, 127913}

====
